---------------------------- MODULE Spec2Model ----------------------------
(***************************************************************************)
(* GlobalLock of lock/lock.go: the ZooKeeper lock recipe.  Every handle    *)
(* (one GlobalLock per contending process) runs Lock and Unlock against    *)
(* the children of one root node.                                          *)
(*                                                                         *)
(* Grain of atomicity: one step is one call of the coordination client     *)
(* (Create, Children, ExistsW, Delete, or the receive on a watch channel)  *)
(* together with the handle-local code that follows it up to the next      *)
(* client call or the return.  A handle has one caller: a call on it       *)
(* starts only when the one before has returned.  Any client call may      *)
(* fail; a Lock that panics leaves its handle at "panic" for good.         *)
(*                                                                         *)
(* A node name is the sequence suffix ZooKeeper appends to root + "/".     *)
(* ZooKeeper pads the suffix to a fixed width, so the order sort.Strings   *)
(* gives the names is the order of the suffixes; a name is modelled by     *)
(* its suffix, a natural number >= 1.  A path is the sequence of its       *)
(* elements: <<>> is the empty string, <<Root, n>> is root + "/" + n.      *)
(***************************************************************************)
EXTENDS Naturals, Sequences, FiniteSets

\* Number of GlobalLock handles contending on the root.
NumHandles == 3
\* Number of sequence numbers the service hands out before Create is cut off.
MaxSeq == 3

Handles == 1 .. NumHandles
Names == 1 .. MaxSeq

VARIABLES
    children,       \* service: names of the nodes now under the root
    owner,          \* service: owner[n] is the handle whose session created n
    nextSeq,        \* service: the next sequence suffix
    watches,        \* service: <<h, n>> when h has a one-shot watch set on n
    ephemeralPath,  \* GlobalLock.ephemeralPath of each handle
    locked,         \* GlobalLock.locked of each handle
    pc,             \* where each handle's caller is
    lchildren,      \* Lock's local variable children
    myIndex,        \* Lock's local variable myIndex
    fired,          \* an event is waiting in the channel w of the handle
    ops,            \* client operations the call in progress has made
    lastReturn,     \* history: the call that returned last, and what it did
    lastGranted,    \* history: name of the node that last obtained the lock
    grants,         \* history: how many times each handle became locked
    released,       \* history: name each handle last deleted in Unlock
    lastRelease,    \* history: what the last Unlock of a held lock did
    lost            \* history: the session ended while Lock was blocked on w

service == <<children, owner, nextSeq, watches>>
handle  == <<ephemeralPath, locked, pc, lchildren, myIndex, fired>>
history == <<ops, lastReturn, lastGranted, grants, released, lastRelease,
             lost>>
vars    == <<service, handle, history>>

-----------------------------------------------------------------------------
(* Paths and the listing.                                                  *)

Root == "root"
EmptyPath == <<>>

\* g.root + "/" + name, and what Create returns for root + "/".
JoinPath(root, name) == <<root, name>>

\* path.Base: the last element of the path.
Base(p) == p[Len(p)]

SetMin(S) == CHOOSE m \in S : \A x \in S : m <= x

\* A sort in descending order.
RECURSIVE SortStringsReversed(_)
SortStringsReversed(S) ==
    IF S = {} THEN <<>>
    ELSE LET m == CHOOSE x \in S : \A y \in S : y <= x
         IN  <<m>> \o SortStringsReversed(S \ {m})

\* sort.Strings: the names in ascending order.
RECURSIVE SortStrings(_)
SortStrings(S) ==
    IF S = {} THEN <<>>
    ELSE LET m == SetMin(S) IN <<m>> \o SortStrings(S \ {m})

\* sort.SearchStrings(a, x): the smallest Go index i in 0..len(a) with
\* a[i] >= x, len(a) when there is none.
SearchStrings(a, x) ==
    LET hit == {i \in 0 .. Len(a) - 1 : a[i + 1] >= x}
    IN  IF hit = {} THEN Len(a) ELSE SetMin(hit)

\* a[i] with Go's index from 0.
At(a, i) == a[i + 1]

\* A test of step (3) that accepts the own node anywhere in the listing.
IsMinimumAny(a, p) == \E i \in 1 .. Len(a) : a[i] = Base(p)
\* The test of step (3): the first child is the handle's own node.
IsMinimum(a, p) == At(a, 0) = Base(p)

\* A step (4) that watches the first child, the holder.
PredecessorFirst(a, i) == At(a, 0)
\* The name watched in step (4): children[myIndex-1].
Predecessor(a, i) == At(a, i - 1)

-----------------------------------------------------------------------------
Init ==
    /\ children = {}
    /\ owner = [n \in Names |-> 0]
    /\ nextSeq = 1
    /\ watches = {}
    /\ ephemeralPath = [h \in Handles |-> EmptyPath]
    /\ locked = [h \in Handles |-> FALSE]
    /\ pc = [h \in Handles |-> "idle"]
    /\ lchildren = [h \in Handles |-> <<>>]
    /\ myIndex = [h \in Handles |-> 0]
    /\ fired = [h \in Handles |-> FALSE]
    /\ ops = [h \in Handles |-> {}]
    /\ lastReturn = [h |-> 0, call |-> "none", result |-> "none", ops |-> {},
                     failed |-> {}]
    /\ lastGranted = 0
    /\ grants = [h \in Handles |-> 0]
    /\ released = [h \in Handles |-> 0]
    /\ lastRelease = [node |-> 0, held |-> FALSE, woken |-> {}, succ |-> 0,
                      blocked |-> {}]
    /\ lost = [h \in Handles |-> FALSE]

-----------------------------------------------------------------------------
(* The end of a call: the caller gets r back and Lock's locals are dead.   *)

\* The call of operation op made the client calls o, of which those of f
\* failed, and returns r.
Return(h, op, r, o, f) ==
    /\ pc' = [pc EXCEPT ![h] = "idle"]
    /\ lchildren' = [lchildren EXCEPT ![h] = <<>>]
    /\ myIndex' = [myIndex EXCEPT ![h] = 0]
    /\ ops' = [ops EXCEPT ![h] = {}]
    /\ lastReturn' = [h |-> h, call |-> op, result |-> r, ops |-> o,
                      failed |-> f]

\* The start of a call on h.
Enter(h) == lost' = [lost EXCEPT ![h] = FALSE]

\* The handles with a watch set on node n.
Watchers(n) == {w \in Handles : <<w, n>> \in watches}

\* The service deletes node n: the node goes and every watch on it fires once.
DeleteNode(n) ==
    /\ children' = children \ {n}
    /\ owner' = [owner EXCEPT ![n] = 0]
    /\ watches' = {x \in watches : x[2] # n}
    /\ fired' = [w \in Handles |-> fired[w] \/ w \in Watchers(n)]

-----------------------------------------------------------------------------
(* Lock.                                                                   *)

\* A Lock without lines 43-45: a held handle runs into the test of line 47.
LockHeldAmbiguous(h) ==
    /\ pc[h] = "idle"
    /\ locked[h]
    /\ Enter(h)
    /\ Return(h, "Lock", "ErrAmbiguous", {}, {})
    /\ UNCHANGED <<service, ephemeralPath, locked, fired, lastGranted, grants,
                   released, lastRelease>>

\* Lines 43-45: the handle already has the lock.
LockHeld(h) ==
    /\ pc[h] = "idle"
    /\ locked[h]
    /\ Enter(h)
    /\ Return(h, "Lock", "ok", {}, {})
    /\ UNCHANGED <<service, ephemeralPath, locked, fired, lastGranted, grants,
                   released, lastRelease>>

\* A Lock without lines 47-49: it creates a second node.
LockAmbiguousCreates(h) ==
    /\ pc[h] = "idle"
    /\ ~locked[h]
    /\ Len(ephemeralPath[h]) > 0
    /\ nextSeq <= MaxSeq
    /\ children' = children \cup {nextSeq}
    /\ owner' = [owner EXCEPT ![nextSeq] = h]
    /\ nextSeq' = nextSeq + 1
    /\ ephemeralPath' = [ephemeralPath EXCEPT ![h] = JoinPath(Root, nextSeq)]
    /\ pc' = [pc EXCEPT ![h] = "list"]
    /\ ops' = [ops EXCEPT ![h] = {"Create"}]
    /\ Enter(h)
    /\ UNCHANGED <<watches, locked, lchildren, myIndex, fired, lastReturn,
                   lastGranted, grants, released, lastRelease>>

\* Lines 47-49: a node of an earlier Lock is still recorded.
LockAmbiguous(h) ==
    /\ pc[h] = "idle"
    /\ ~locked[h]
    /\ Len(ephemeralPath[h]) > 0
    /\ Enter(h)
    /\ Return(h, "Lock", "ErrAmbiguous", {}, {})
    /\ UNCHANGED <<service, ephemeralPath, locked, fired, lastGranted, grants,
                   released, lastRelease>>

\* Lines 52-55, Create succeeds: step (1).
LockCreate(h) ==
    /\ pc[h] = "idle"
    /\ ~locked[h]
    /\ Len(ephemeralPath[h]) = 0
    /\ nextSeq <= MaxSeq
    /\ children' = children \cup {nextSeq}
    /\ owner' = [owner EXCEPT ![nextSeq] = h]
    /\ nextSeq' = nextSeq + 1
    /\ ephemeralPath' = [ephemeralPath EXCEPT ![h] = JoinPath(Root, nextSeq)]
    /\ pc' = [pc EXCEPT ![h] = "list"]
    /\ ops' = [ops EXCEPT ![h] = {"Create"}]
    /\ Enter(h)
    /\ UNCHANGED <<watches, locked, lchildren, myIndex, fired, lastReturn,
                   lastGranted, grants, released, lastRelease>>

\* Lines 52-55, Create fails: it returns "" and the error.
LockCreateFail(h) ==
    /\ pc[h] = "idle"
    /\ ~locked[h]
    /\ Len(ephemeralPath[h]) = 0
    /\ ephemeralPath' = [ephemeralPath EXCEPT ![h] = EmptyPath]
    /\ Enter(h)
    /\ Return(h, "Lock", "ErrClient", {"Create"}, {"Create"})
    /\ UNCHANGED <<service, locked, fired, lastGranted, grants, released,
                   lastRelease>>

\* Lines 66-78 on the listing a that Children gave, f the failure of
\* Children if it failed: steps (2) and (3).
AfterChildren(h, a, f) ==
    LET o == ops[h] \cup {"Children"}
    IN  /\ IF Len(a) = 0
           THEN /\ Return(h, "Lock", "ErrNoChildren", o, f)
                /\ UNCHANGED <<locked, lastGranted, grants>>
           ELSE IF IsMinimum(a, ephemeralPath[h])
           THEN /\ locked' = [locked EXCEPT ![h] = TRUE]
                /\ lastGranted' = Base(ephemeralPath[h])
                /\ grants' = [grants EXCEPT ![h] = @ + 1]
                /\ Return(h, "Lock", "ok", o, f)
           ELSE /\ lchildren' = [lchildren EXCEPT ![h] = a]
                /\ myIndex' = [myIndex EXCEPT ![h] =
                                  SearchStrings(a, Base(ephemeralPath[h]))]
                /\ pc' = [pc EXCEPT ![h] = "exists"]
                /\ ops' = [ops EXCEPT ![h] = o]
                /\ UNCHANGED <<locked, lastGranted, grants, lastReturn>>
        /\ UNCHANGED <<service, ephemeralPath, fired, released, lastRelease,
                       lost>>

\* Line 63, Children succeeds.
LockChildren(h) ==
    /\ pc[h] = "list"
    /\ AfterChildren(h, SortStrings(children), {})

\* Line 63, Children fails: children is nil and err is not looked at.
LockChildrenFail(h) ==
    /\ pc[h] = "list"
    /\ AfterChildren(h, <<>>, {"Children"})

\* A step (5) without the break of lines 87-89: it waits on the channel
\* whatever stat is.
LockExistsWNoBreak(h) ==
    /\ pc[h] = "exists"
    /\ IF myIndex[h] - 1 < 0 \/ myIndex[h] - 1 >= Len(lchildren[h])
       THEN /\ pc' = [pc EXCEPT ![h] = "panic"]
            /\ UNCHANGED <<watches, fired, ops>>
       ELSE LET n == Predecessor(lchildren[h], myIndex[h])
            IN  /\ ops' = [ops EXCEPT ![h] = @ \cup {"ExistsW"}]
                /\ watches' = watches \cup {<<h, n>>}
                /\ fired' = [fired EXCEPT ![h] = FALSE]
                /\ pc' = [pc EXCEPT ![h] = "wait"]
    /\ UNCHANGED <<children, owner, nextSeq, ephemeralPath, locked, lchildren,
                   myIndex, lastReturn, lastGranted, grants, released,
                   lastRelease, lost>>

\* Lines 82-91, ExistsW succeeds: steps (4), (5) and the wait of (6).  The
\* index children[myIndex-1] is evaluated first and panics out of range.
LockExistsW(h) ==
    /\ pc[h] = "exists"
    /\ IF myIndex[h] - 1 < 0 \/ myIndex[h] - 1 >= Len(lchildren[h])
       THEN /\ pc' = [pc EXCEPT ![h] = "panic"]
            /\ UNCHANGED <<watches, fired, ops, lchildren, myIndex>>
       ELSE LET n == Predecessor(lchildren[h], myIndex[h])
            IN  /\ ops' = [ops EXCEPT ![h] = @ \cup {"ExistsW"}]
                /\ IF n \in children
                   THEN /\ watches' = watches \cup {<<h, n>>}
                        /\ fired' = [fired EXCEPT ![h] = FALSE]
                        /\ pc' = [pc EXCEPT ![h] = "wait"]
                        /\ UNCHANGED <<lchildren, myIndex>>
                   ELSE /\ pc' = [pc EXCEPT ![h] = "list"]
                        /\ lchildren' = [lchildren EXCEPT ![h] = <<>>]
                        /\ myIndex' = [myIndex EXCEPT ![h] = 0]
                        /\ UNCHANGED <<watches, fired>>
    /\ UNCHANGED <<children, owner, nextSeq, ephemeralPath, locked,
                   lastReturn, lastGranted, grants, released, lastRelease,
                   lost>>

\* A failing ExistsW that cleans up: it deletes the node and forgets the path.
LockExistsWFailCleanup(h) ==
    /\ pc[h] = "exists"
    /\ myIndex[h] - 1 >= 0
    /\ myIndex[h] - 1 < Len(lchildren[h])
    /\ DeleteNode(Base(ephemeralPath[h]))
    /\ ephemeralPath' = [ephemeralPath EXCEPT ![h] = EmptyPath]
    /\ Return(h, "Lock", "ErrClient", ops[h] \cup {"ExistsW"}, {"ExistsW"})
    /\ UNCHANGED <<nextSeq, locked, lastGranted, grants, released,
                   lastRelease, lost>>

\* Lines 82-85, ExistsW fails.
LockExistsWFail(h) ==
    /\ pc[h] = "exists"
    /\ myIndex[h] - 1 >= 0
    /\ myIndex[h] - 1 < Len(lchildren[h])
    /\ Return(h, "Lock", "ErrClient", ops[h] \cup {"ExistsW"}, {"ExistsW"})
    /\ UNCHANGED <<service, ephemeralPath, locked, fired, lastGranted, grants,
                   released, lastRelease, lost>>

\* Line 91: the channel w delivers; the inner loop calls ExistsW again.
LockWake(h) ==
    /\ pc[h] = "wait"
    /\ fired[h]
    /\ fired' = [fired EXCEPT ![h] = FALSE]
    /\ pc' = [pc EXCEPT ![h] = "exists"]
    /\ UNCHANGED <<service, ephemeralPath, locked, lchildren, myIndex, history>>

-----------------------------------------------------------------------------
(* Unlock.                                                                 *)

\* Smallest child above n, 0 when there is none.
Successor(n) ==
    LET above == {c \in children : c > n}
    IN  IF above = {} THEN 0 ELSE SetMin(above)

\* History of the Unlock of a held lock: the node deleted, the names of the
\* nodes of the handles whose watch fired, the node next in line, and the
\* handles that were blocked on a watch channel.  An Unlock of a handle that
\* does not have the lock leaves the record as it is.
ReleaseRecord(h, n) ==
    IF locked[h]
    THEN [node    |-> n,
          held    |-> TRUE,
          woken   |-> {Base(ephemeralPath[w]) : w \in Watchers(n)},
          succ    |-> Successor(n),
          blocked |-> {w \in Handles : pc[w] = "wait"}]
    ELSE lastRelease

\* An Unlock that deletes and resets only when the lock is held.
UnlockOnlyHeld(h) ==
    LET n == Base(ephemeralPath[h])
    IN  /\ pc[h] = "idle"
        /\ Len(ephemeralPath[h]) > 0
        /\ n \in children
        /\ IF locked[h]
           THEN /\ DeleteNode(n)
                /\ ephemeralPath' = [ephemeralPath EXCEPT ![h] = EmptyPath]
                /\ locked' = [locked EXCEPT ![h] = FALSE]
                /\ released' = [released EXCEPT ![h] = n]
                /\ lastRelease' = ReleaseRecord(h, n)
           ELSE UNCHANGED <<service, fired, ephemeralPath, locked, released,
                            lastRelease>>
        /\ Enter(h)
        /\ Return(h, "Unlock", "ok", {"Delete"}, {})
        /\ UNCHANGED <<nextSeq, lastGranted, grants>>

\* Unlock that forgets lines 101-102.
UnlockKeepState(h) ==
    LET n == Base(ephemeralPath[h])
    IN  /\ pc[h] = "idle"
        /\ Len(ephemeralPath[h]) > 0
        /\ n \in children
        /\ DeleteNode(n)
        /\ released' = [released EXCEPT ![h] = n]
        /\ lastRelease' = ReleaseRecord(h, n)
        /\ Enter(h)
        /\ Return(h, "Unlock", "ok", {"Delete"}, {})
        /\ UNCHANGED <<nextSeq, ephemeralPath, locked, lastGranted, grants>>

\* Lines 99-104, Delete succeeds.
Unlock(h) ==
    LET n == Base(ephemeralPath[h])
    IN  /\ pc[h] = "idle"
        /\ Len(ephemeralPath[h]) > 0
        /\ n \in children
        /\ DeleteNode(n)
        /\ ephemeralPath' = [ephemeralPath EXCEPT ![h] = EmptyPath]
        /\ locked' = [locked EXCEPT ![h] = FALSE]
        /\ released' = [released EXCEPT ![h] = n]
        /\ lastRelease' = ReleaseRecord(h, n)
        /\ Enter(h)
        /\ Return(h, "Unlock", "ok", {"Delete"}, {})
        /\ UNCHANGED <<nextSeq, lastGranted, grants>>

\* An Unlock whose lines 101-102 are not under the test of err.
UnlockFailReset(h) ==
    /\ pc[h] = "idle"
    /\ ephemeralPath' = [ephemeralPath EXCEPT ![h] = EmptyPath]
    /\ locked' = [locked EXCEPT ![h] = FALSE]
    /\ Enter(h)
    /\ Return(h, "Unlock", "ErrClient", {"Delete"}, {"Delete"})
    /\ UNCHANGED <<service, fired, lastGranted, grants, released, lastRelease>>

\* Lines 99-104, Delete fails (a client failure, or no node at the path).
UnlockFail(h) ==
    /\ pc[h] = "idle"
    /\ Enter(h)
    /\ Return(h, "Unlock", "ErrClient", {"Delete"}, {"Delete"})
    /\ UNCHANGED <<service, ephemeralPath, locked, fired, lastGranted, grants,
                   released, lastRelease>>

-----------------------------------------------------------------------------
(* The service ends the session of handle h: its ephemeral nodes go, the   *)
(* watches on them fire, the session's own watches are dropped and its     *)
(* channels get the session event.                                         *)

SessionEnd(h) ==
    LET gone == {n \in children : owner[n] = h}
        hit  == {w \in Handles : \E n \in gone : <<w, n>> \in watches}
    IN  /\ gone # {}
        /\ children' = children \ gone
        /\ owner' = [n \in Names |-> IF n \in gone THEN 0 ELSE owner[n]]
        /\ watches' = {x \in watches : x[1] # h /\ x[2] \notin gone}
        /\ fired' = [w \in Handles |->
                        fired[w] \/ w \in hit \/ (w = h /\ pc[h] = "wait")]
        /\ lost' = [lost EXCEPT ![h] = @ \/ pc[h] = "wait"]
        /\ UNCHANGED <<nextSeq, ephemeralPath, locked, pc, lchildren, myIndex,
                       ops, lastReturn, lastGranted, grants, released,
                       lastRelease>>

-----------------------------------------------------------------------------
(* Specifications.                                                         *)

\* Any interleaving of Lock and Unlock calls, client failures included.
Next ==
    \E h \in Handles :
        \/ LockHeld(h)
        \/ LockAmbiguous(h)
        \/ LockCreate(h)
        \/ LockCreateFail(h)
        \/ LockChildren(h)
        \/ LockChildrenFail(h)
        \/ LockExistsW(h)
        \/ LockExistsWFail(h)
        \/ LockWake(h)
        \/ Unlock(h)
        \/ UnlockFail(h)

Spec == Init /\ [][Next]_vars

\* The same, and the service may end sessions.
NextSession ==
    \E h \in Handles :
        \/ LockHeld(h)
        \/ LockAmbiguous(h)
        \/ LockCreate(h)
        \/ LockCreateFail(h)
        \/ LockChildren(h)
        \/ LockChildrenFail(h)
        \/ LockExistsW(h)
        \/ LockExistsWFail(h)
        \/ LockWake(h)
        \/ Unlock(h)
        \/ UnlockFail(h)
        \/ SessionEnd(h)

SpecSession == Init /\ [][NextSession]_vars

\* N contenders that each call Lock once and, holding the lock, Unlock once;
\* no client call fails.  Every contender keeps running and every fired
\* watch is delivered.
LiveLock(h) == grants[h] = 0 /\ LockCreate(h)
LiveUnlock(h) == locked[h] /\ Unlock(h)

LiveStep(h) ==
    \/ LiveLock(h)
    \/ LockChildren(h)
    \/ LockExistsW(h)
    \/ LockWake(h)
    \/ LiveUnlock(h)

NextLive == \E h \in Handles : LiveStep(h)

SpecLive ==
    Init /\ [][NextLive]_vars /\ \A h \in Handles : WF_vars(LiveStep(h))

-----------------------------------------------------------------------------
(* Shorthands of the properties.                                           *)

\* The handle is inside Lock with its candidate node created.
InLock(h) == pc[h] \in {"list", "exists", "wait"}

HasNode(h) == Len(ephemeralPath[h]) > 0

OwnName(h) == Base(ephemeralPath[h])

Errors == {"ErrAmbiguous", "ErrNoChildren", "ErrClient"}

\* The call op on h is the call that returned last.
Returned(h, op) ==
    pc[h] = "idle" /\ lastReturn.h = h /\ lastReturn.call = op

\* A step that starts a call of Lock on h.
LockCall(h) ==
    LockHeld(h) \/ LockAmbiguous(h) \/ LockCreate(h) \/ LockCreateFail(h)

-----------------------------------------------------------------------------
(* C1: mutual exclusion.  In every state reached by interleaving Lock and  *)
(* Unlock calls of the handles, at most one handle has locked = TRUE.      *)
C1_MutualExclusion ==
    \A a, b \in Handles : locked[a] /\ locked[b] => a = b

\* A second handle has the lock after the first one released it, while a
\* third is blocked on its watch.
C1_Witness ==
    \E a, b \in Handles :
        /\ a # b
        /\ locked[a]
        /\ lastRelease.held
        /\ pc[b] = "wait"

(* C2: a handle with locked = TRUE has a non-empty ephemeralPath and its   *)
(* node is the smallest child of the root, also after the service removed  *)
(* a node whose session ended.                                             *)
C2_HeldIsMinimum ==
    \A h \in Handles :
        locked[h] =>
            /\ HasNode(h)
            /\ OwnName(h) \in children
            /\ \A c \in children : OwnName(h) <= c

(* C3: FIFO.  When a handle becomes locked no handle waiting in Lock has a *)
(* node with a smaller sequence number, and the handles obtain the lock in *)
(* the order in which their nodes were created.                            *)
C3_Fifo ==
    [][\A b \in Handles :
          (~locked[b] /\ locked'[b]) =>
              /\ \A a \in Handles \ {b} :
                    (InLock(a) /\ HasNode(a)) => OwnName(a) > OwnName(b)
              /\ OwnName(b) > lastGranted
              /\ lastGranted' = OwnName(b)]_vars

\* A handle that registered a watch in its Lock has the lock after another
\* handle, with the smaller node, had it and released it.
C3_Witness ==
    \E a, b \in Handles :
        /\ a # b
        /\ grants[a] >= 1
        /\ released[a] > 0
        /\ locked[b]
        /\ Returned(b, "Lock")
        /\ "ExistsW" \in lastReturn.ops
        /\ released[a] < OwnName(b)

(* C4 as amended: every node is watched by at most one handle, and the     *)
(* delete of an Unlock of a held lock fires the watch of at most one       *)
(* handle, whose node is the next in line.                                 *)
C4_AtMostOneWoken ==
    /\ \A n \in Names : Cardinality(Watchers(n)) <= 1
    /\ lastRelease.held =>
          /\ Cardinality(lastRelease.woken) <= 1
          /\ \A n \in lastRelease.woken : n = lastRelease.succ

\* The holder released while two handles were blocked, and one was woken.
C4_Witness ==
    /\ lastRelease.held
    /\ Cardinality(lastRelease.blocked) = 2
    /\ Cardinality(lastRelease.woken) = 1

(* C4 as stated: the delete of an Unlock of a held lock, made while other  *)
(* handles are blocked on their watches, fires the watch of exactly one    *)
(* of them.                                                                *)
C4_ExactlyOneWoken ==
    (lastRelease.held /\ lastRelease.blocked # {}) =>
        Cardinality(lastRelease.woken) = 1

(* C5: liveness.  When every contender calls Lock and, holding the lock,   *)
(* Unlock, and no client call fails, every Lock returns with locked = TRUE *)
(* and every contender becomes locked exactly once.                        *)
C5_Liveness ==
    \A h \in Handles :
        /\ <>(Returned(h, "Lock") /\ lastReturn.result = "ok" /\ locked[h])
        /\ [](grants[h] <= 1)
        /\ <>[](grants[h] = 1)

\* Every contender has had the lock and released it.
C5_Witness ==
    \A h \in Handles :
        grants[h] = 1 /\ released[h] > 0 /\ ~locked[h] /\ pc[h] = "idle"

C7_FailedReleaseKeepsState ==
    /\ [][\A h \in Handles :
            (/\ pc[h] = "idle"
             /\ Returned(h, "Unlock")' /\ "Delete" \in lastReturn'.failed)
            => /\ ephemeralPath'[h] = ephemeralPath[h]
               /\ locked'[h] = locked[h]
               /\ lastReturn'.result = "ErrClient"]_vars
    /\ [](\A h \in Handles :
            (/\ Returned(h, "Unlock") /\ "Delete" \in lastReturn.failed
             /\ HasNode(h) /\ OwnName(h) \in children)
            => ENABLED Unlock(h))

\* A handle that has the lock got an error back from Unlock.
C7_Witness ==
    \E h \in Handles :
        /\ Returned(h, "Unlock")
        /\ "Delete" \in lastReturn.failed
        /\ lastReturn.result = "ErrClient"
        /\ locked[h]

(* C8: whenever a client operation called by Lock fails, Lock returns      *)
(* that client failure.                                                    *)
C8_ClientFailurePropagated ==
    \A h \in Handles :
        (Returned(h, "Lock") /\ lastReturn.failed # {})
            => lastReturn.result = "ErrClient"

(* C9: a Lock called on a handle with a non-empty ephemeralPath and        *)
(* locked = FALSE returns the ambiguous-state error, makes no client call  *)
(* and leaves the handle and the root's children unchanged.                *)
C9_AmbiguousRejected ==
    [][\A h \in Handles :
          (~locked[h] /\ HasNode(h) /\ LockCall(h))
          => /\ Returned(h, "Lock")'
             /\ lastReturn'.result = "ErrAmbiguous"
             /\ lastReturn'.ops = {}
             /\ ephemeralPath' = ephemeralPath
             /\ locked' = locked
             /\ service' = service]_vars

\* The error came back while the node of the earlier Lock is still a child.
C9_Witness ==
    \E h \in Handles :
        /\ Returned(h, "Lock")
        /\ lastReturn.result = "ErrAmbiguous"
        /\ OwnName(h) \in children

(* C10: when the service removes the node of a handle whose Lock is        *)
(* blocked on its watch, Lock returns an error; it does not grant the lock *)
(* and does not crash.                                                     *)
C10_SessionLossIsAnError ==
    \A h \in Handles :
        lost[h] =>
            /\ pc[h] # "panic"
            /\ ~locked[h]
            /\ Returned(h, "Lock") => lastReturn.result \in Errors

(* C11: at most one child of the root that a handle created exists at any *)
(* time, whatever its Lock and Unlock calls returned, and a call of Lock   *)
(* creates at most one node.                                               *)
C11_OneSlotPerHandle ==
    /\ [](\A h \in Handles :
            Cardinality({n \in children : owner[n] = h}) <= 1)
    /\ [][/\ Cardinality(children' \ children) <= 1
          /\ \A h \in Handles :
                InLock(h) => \A n \in children' \ children : owner'[n] # h]_vars

\* A handle that released one node and created another was called again
\* while its node is queued, and got the ambiguous-state error.
C11_Witness ==
    \E h \in Handles :
        /\ Returned(h, "Lock")
        /\ lastReturn.result = "ErrAmbiguous"
        /\ released[h] > 0
        /\ OwnName(h) \in children
        /\ owner[OwnName(h)] = h

(* C12: a watch that Lock registers is on the child with the greatest      *)
(* sequence number below the handle's own in the listing Lock just took,   *)
(* which is the first child only when nothing lies between.                *)
C12_WatchesPredecessor ==
    \A h \in Handles :
        \A n \in Names :
            <<h, n>> \in watches =>
                /\ \E i \in 1 .. Len(lchildren[h]) : lchildren[h][i] = n
                /\ n < OwnName(h)
                /\ \A i \in 1 .. Len(lchildren[h]) :
                      ~(n < lchildren[h][i] /\ lchildren[h][i] < OwnName(h))

\* A handle watches a node that is not the first child of its listing.
C12_Witness ==
    \E h \in Handles :
        \E n \in Names :
            /\ <<h, n>> \in watches
            /\ pc[h] = "wait"
            /\ Len(lchildren[h]) = 3
            /\ n # lchildren[h][1]

(* C13: Lock sets locked and returns success only in the step whose        *)
(* listing has the handle's own name as its smallest child; when that is   *)
(* the first listing after Create, Lock has registered no watch.           *)
C13_GrantOnlyAtMinimum ==
    [][\A h \in Handles :
          /\ ((~locked[h] /\ locked'[h])
              \/ (InLock(h) /\ Returned(h, "Lock")' /\ lastReturn'.result = "ok"))
             => /\ pc[h] = "list"
                /\ locked'[h]
                /\ Returned(h, "Lock")'
                /\ lastReturn'.result = "ok"
                /\ HasNode(h)
                /\ OwnName(h) \in children
                /\ \A c \in children : OwnName(h) <= c
          /\ (~locked[h] /\ locked'[h] /\ ops[h] = {"Create"})
             => /\ lastReturn'.ops = {"Create", "Children"}
                /\ \A n \in Names : <<h, n>> \notin watches']_vars

\* The lock was granted on the first listing while another handle queues.
C13_Witness ==
    \E h, b \in Handles :
        /\ h # b
        /\ Returned(h, "Lock")
        /\ lastReturn.result = "ok"
        /\ lastReturn.ops = {"Create", "Children"}
        /\ locked[h]
        /\ InLock(b)

(* C14: no handle is blocked on a watch of a node that no longer exists    *)
(* without the event waiting in its channel; an ExistsW that finds the     *)
(* predecessor gone sends Lock back to the listing, neither blocking nor   *)
(* failing; and a blocked handle whose watch fired goes on.                *)
C14_NoMissedWakeup ==
    /\ [](\A h \in Handles :
            pc[h] = "wait" =>
                \/ fired[h] /\ ENABLED LockWake(h)
                \/ \E n \in children : <<h, n>> \in watches)
    /\ [][\A h \in Handles :
            (/\ pc[h] = "exists"
             /\ pc'[h] # "exists"
             /\ myIndex[h] >= 1
             /\ Predecessor(lchildren[h], myIndex[h]) \notin children)
            => \/ pc'[h] = "list"
               \/ Returned(h, "Lock")' /\ "ExistsW" \in lastReturn'.failed]_vars

\* A handle whose predecessor was gone is back at the listing.
C14_Witness ==
    \E h \in Handles :
        /\ pc[h] = "list"
        /\ "ExistsW" \in ops[h]
        /\ OwnName(h) \in children

(* C15: each time the watch of a blocked handle fires, the next client     *)
(* call of its Lock is the children listing, so that no further watch is   *)
(* registered before a fresh listing was taken.                            *)
C15_RelistAfterWake ==
    [][\A h \in Handles :
        (pc[h] = "wait" /\ pc'[h] # "wait") => pc'[h] = "list"]_vars

(* C16: Lock returns the no-children error exactly when a successful       *)
(* listing taken after its Create is empty; locked stays FALSE and no      *)
(* watch of the handle is registered; the error is never returned from     *)
(* the ExistsW of a missing predecessor.                                   *)
C16_EmptyListingError ==
    [][\A h \in Handles :
        LET noChildren == Returned(h, "Lock")'
                            /\ lastReturn'.result = "ErrNoChildren"
            listed     == /\ pc[h] = "list"
                          /\ pc'[h] # "list"
                          /\ ~(Returned(h, "Lock")' /\ lastReturn'.failed # {})
        IN  /\ (InLock(h) /\ noChildren)
                => /\ listed
                   /\ children = {}
                   /\ ~locked'[h]
                   /\ \A n \in Names : <<h, n>> \notin watches'
            /\ (listed /\ children = {}) => noChildren]_vars

(* C17: when a Lock that created its node returns an error, the handle     *)
(* has locked = FALSE and a non-empty ephemeralPath, the returning step    *)
(* deleted no node, and the node is still a child of the root.             *)
C17_StateAfterFailedLock ==
    /\ [][\A h \in Handles :
            (InLock(h) /\ Returned(h, "Lock")' /\ lastReturn'.result \in Errors)
            => /\ ~locked'[h]
               /\ HasNode(h)'
               /\ ephemeralPath'[h] = ephemeralPath[h]
               /\ children' = children]_vars
    /\ [](\A h \in Handles :
            (/\ Returned(h, "Lock")
             /\ lastReturn.result \in Errors
             /\ "Create" \in lastReturn.ops
             /\ "Create" \notin lastReturn.failed)
            => /\ ~locked[h]
               /\ HasNode(h)
               /\ OwnName(h) \in children
               /\ owner[OwnName(h)] = h)

\* A Lock has returned the failure of its ExistsW.
C17_Witness ==
    \E h \in Handles :
        /\ Returned(h, "Lock")
        /\ lastReturn.result = "ErrClient"
        /\ lastReturn.failed = {"ExistsW"}
        /\ OwnName(h) \in children

(* C18: on a handle with a non-empty ephemeralPath and locked = FALSE a    *)
(* successful Unlock deletes the node and empties the handle, and such an  *)
(* Unlock is possible; a handle in the empty state accepts Lock again,     *)
(* and that Lock creates a node that is new to the root.                   *)
C18_RecoveryByUnlock ==
    /\ [][\A h \in Handles :
            /\ (/\ pc[h] = "idle"
                /\ ~locked[h]
                /\ HasNode(h)
                /\ Returned(h, "Unlock")'
                /\ lastReturn'.result = "ok")
               => /\ ~HasNode(h)'
                  /\ ~locked'[h]
                  /\ children' = children \ {OwnName(h)}
                  /\ OwnName(h) \in children
            /\ (pc[h] = "idle" /\ pc'[h] = "list")
               => /\ HasNode(h)'
                  /\ OwnName(h)' \in children' \ children
                  /\ OwnName(h)' > released[h]
                  /\ owner'[OwnName(h)'] = h]_vars
    /\ [](\A h \in Handles :
            /\ (pc[h] = "idle" /\ HasNode(h) /\ ~locked[h])
               => ENABLED Unlock(h)
            /\ (pc[h] = "idle" /\ ~HasNode(h) /\ ~locked[h])
               => /\ ~ENABLED LockAmbiguous(h)
                  /\ nextSeq <= MaxSeq => ENABLED LockCreate(h))

\* A handle that never had the lock, released a stale node and is in a new
\* Lock with a new node.
C18_Witness ==
    \E h \in Handles :
        /\ released[h] > 0
        /\ grants[h] = 0
        /\ InLock(h)
        /\ OwnName(h) \in children
        /\ OwnName(h) > released[h]

(* C19: a Lock called on a handle with locked = TRUE returns success at    *)
(* once, makes no client call and leaves ephemeralPath, locked, the        *)
(* root's children and the watches unchanged.                              *)
C19_LockHeldIsNoOp ==
    [][\A h \in Handles :
          (locked[h] /\ LockCall(h))
          => /\ Returned(h, "Lock")'
             /\ lastReturn'.result = "ok"
             /\ lastReturn'.ops = {}
             /\ service' = service
             /\ ephemeralPath' = ephemeralPath
             /\ locked' = locked]_vars

\* A Lock on a handle that has the lock has returned.
C19_Witness ==
    \E h \in Handles :
        /\ Returned(h, "Lock")
        /\ lastReturn.result = "ok"
        /\ lastReturn.ops = {}
        /\ locked[h]
        /\ OwnName(h) \in children

(* C20: whenever Lock is at the predecessor lookup, the handle's own name  *)
(* is in the listing at index myIndex and myIndex is at least 1, so that   *)
(* children[myIndex-1] is an entry of the listing; Lock never panics.      *)
C20_PredecessorIndexValid ==
    \A h \in Handles :
        /\ pc[h] = "exists"
            => /\ myIndex[h] >= 1
               /\ myIndex[h] < Len(lchildren[h])
               /\ At(lchildren[h], myIndex[h]) = OwnName(h)
        /\ pc[h] # "panic"

=============================================================================
